---- MODULE Spec2Model ----
(***************************************************************************)
(* A model of external_lib/dylib.c: the exported function                  *)
(*                                                                         *)
(*   int32_t dyloading_add(int32_t a, int32_t b, char *result)             *)
(*                                                                         *)
(* together with the callers that drive it: one caller that calls it again *)
(* and again on its own buffer (Spec), and two callers that call it at the *)
(* same time on one shared buffer (SpecRace).                              *)
(*                                                                         *)
(* Text is a sequence of one-character strings.  Memory is a sequence of   *)
(* such characters, the byte at offset i being its element i + 1; the      *)
(* buffer is its first cap bytes, and the bytes from offset cap on belong  *)
(* to whatever lies behind the buffer.  printf reads the buffer in one     *)
(* step and sprintf writes it one piece of its format per step (a run of   *)
(* literal text, a %d field, the terminating NUL), which is the grain at   *)
(* which two unsynchronised calls interleave here.                         *)
(***************************************************************************)
EXTENDS Integers, Sequences, FiniteSets, TLC

\* ------------------------------------------------------------ int32_t

\* The largest and the smallest int32_t.  TLC's own integers are 32 bits
\* wide, so nothing below is allowed to leave this range on the way.
INT32_MAX == 2147483647
INT32_MIN == -INT32_MAX - 1

\* Whether the mathematical sum x + y is an int32_t.
NoOverflow(x, y) ==
    IF y >= 0 THEN x <= INT32_MAX - y ELSE x >= INT32_MIN - y

\* An addition that stops at the ends of the range, in place of Add32.
Add32Saturate(x, y) ==
    IF NoOverflow(x, y) THEN x + y
    ELSE IF y > 0 THEN INT32_MAX ELSE INT32_MIN

\* a + b on int32_t as the named builds (gcc, MSBuild) compile it: one
\* two's-complement add, which drops the carry out of bit 31.  Out of range
\* upwards the result is x + y - 2^32, downwards x + y + 2^32, each written
\* so that no intermediate value leaves 32 bits.
Add32(x, y) ==
    IF NoOverflow(x, y) THEN x + y
    ELSE IF y > 0 THEN (x + INT32_MIN) + (y + INT32_MIN)
    ELSE (x - INT32_MIN) + (y - INT32_MIN)

\* ------------------------------------------------------------ text

NUL == "\\0"
NL == "\n"

DigitChars == <<"0", "1", "2", "3", "4", "5", "6", "7", "8", "9">>

\* The digits of n <= 0, most significant first, taken off the negative
\* number itself so that INT32_MIN needs no negation.
RECURSIVE NegDigits(_)
NegDigits(n) ==
    LET d == (10 - (n % 10)) % 10
        q == (n + d) \div 10
    IN  IF q = 0 THEN <<DigitChars[d + 1]>>
        ELSE NegDigits(q) \o <<DigitChars[d + 1]>>

\* %02d in place of %d: a field of one digit gets a leading zero.
DecPadded(n) ==
    LET s == NegDigits(IF n < 0 THEN n ELSE -n)
        q == IF Len(s) < 2 THEN <<"0">> \o s ELSE s
    IN  IF n < 0 THEN <<"-">> \o q ELSE q

\* %12d in place of %d: every field is padded with blanks to twelve wide.
RECURSIVE PadLeft(_, _)
PadLeft(s, w) == IF Len(s) >= w THEN s ELSE PadLeft(<<" ">> \o s, w)
DecWide(n) ==
    PadLeft(IF n < 0 THEN <<"-">> \o NegDigits(n) ELSE NegDigits(-n), 12)

\* %d: the decimal text of an int, a minus sign first when it is negative.
Dec(n) ==
    IF n < 0 THEN <<"-">> \o NegDigits(n) ELSE NegDigits(-n)

\* "[External dyloading] Hello %s\n" up to its %s.
HelloPrefix ==
    <<"[", "E", "x", "t", "e", "r", "n", "a", "l", " ",
      "d", "y", "l", "o", "a", "d", "i", "n", "g", "]", " ",
      "H", "e", "l", "l", "o", " ">>

\* "[External dyloading] The result (%d + %d) is %d!" cut at its three %d.
FmtHead ==
    <<"[", "E", "x", "t", "e", "r", "n", "a", "l", " ",
      "d", "y", "l", "o", "a", "d", "i", "n", "g", "]", " ",
      "T", "h", "e", " ", "r", "e", "s", "u", "l", "t", " ", "(">>
FmtPlus == <<" ", "+", " ">>
FmtIs == <<")", " ", "i", "s", " ">>
FmtBang == <<"!">>

\* The pieces without the terminating NUL, in place of Pieces.
PiecesNoNul(x, y, s) ==
    <<FmtHead, Dec(x), FmtPlus, Dec(y), FmtIs, Dec(s), FmtBang, <<>>>>

\* The pieces sprintf stores, in order, for the format and the arguments
\* a, b, sum: literal text, a %d field, ..., and the terminating NUL.
Pieces(x, y, s) ==
    <<FmtHead, Dec(x), FmtPlus, Dec(y), FmtIs, Dec(s), FmtBang, <<NUL>>>>

\* The text sprintf produces: the pieces before the NUL, joined.
Message(x, y, s) ==
    FmtHead \o Dec(x) \o FmtPlus \o Dec(y) \o FmtIs \o Dec(s) \o FmtBang

\* ------------------------------------------------------------ memory

\* The bytes of memory the model keeps, from the buffer's first byte on.
MemSize == 80
Offsets == 0 .. (MemSize - 1)

\* The byte of memory m at offset i, and the bytes of m from offset i on.
Byte(m, i) == m[i + 1]
From(m, i) == SubSeq(m, i + 1, Len(m))

\* The shortest and the longest message sprintf can produce.
MinMsgLen == Len(Message(0, 0, 0))
MaxMsgLen == Len(Message(INT32_MIN, INT32_MIN, INT32_MIN))

\* What a caller puts in the buffer before a call: a label, its terminating
\* NUL, and behind it whatever the memory held (zeroes, or stale bytes).  The
\* labels are the empty one, a short one, and one longer than the shortest
\* message.
LongLabel == [i \in 1 .. (MinMsgLen + 2) |-> "L"]
Labels == { <<>>, <<"R", "u", "s", "t">>, LongLabel }
Fills == { NUL, "#" }
InitMem(label, fill) ==
    [k \in 1 .. MemSize |->
        IF k <= Len(label) THEN label[k]
        ELSE IF k = Len(label) + 1 THEN NUL ELSE fill]

\* The capacities a caller gives its buffer: just enough for the shortest
\* message, one byte short of the longest, and enough for the longest.
Caps == { MinMsgLen + 1, MaxMsgLen, MaxMsgLen + 1 }

\* The labels that fit, with their NUL, in a buffer of capacity c.
LabelsFor(c) == { label \in Labels : Len(label) < c }

\* The C string at the start of memory m: the bytes before the first NUL
\* (all of m when it holds none).
StrLen(m) ==
    IF \E i \in Offsets : Byte(m, i) = NUL
    THEN CHOOSE i \in Offsets :
            Byte(m, i) = NUL /\ \A j \in 0 .. (i - 1) : Byte(m, j) # NUL
    ELSE MemSize
CStr(m) == SubSeq(m, 1, StrLen(m))

\* ------------------------------------------------------------ state

Threads == {1, 2}

\* The operands the callers pass.
ArgValues == { INT32_MIN, -1000000000, -7, 0, 2, 3, INT32_MAX }
RaceArgs == { <<2, 3>>, <<-7, 2>> }

VARIABLES
    mem,    \* memory from the buffer's first byte on (result points at offset 0)
    cap,    \* the buffer's capacity in bytes, known to the caller alone
    pc,     \* pc[t]: where caller t stands in dyloading_add
    a,      \* a[t], b[t]: the operands of t's call
    b,
    sum,    \* sum[t]: the local variable sum
    ret,    \* ret[t]: the value t's call returned
    seg,    \* seg[t]: how many pieces sprintf has stored
    wr,     \* wr[t]: the offset sprintf stores at next
    out,    \* out[t]: what t's call has put on standard output
    mem0,   \* mem0[t]: memory as it was when t's call began
    prev    \* the sequential caller's previous call, <<>> before its second

vars == <<mem, cap, pc, a, b, sum, ret, seg, wr, out, mem0, prev>>

Init ==
    /\ cap \in Caps
    /\ \E label \in LabelsFor(cap), fill \in Fills : mem = InitMem(label, fill)
    /\ pc = [t \in Threads |-> "idle"]
    /\ a = [t \in Threads |-> 0]
    /\ b = [t \in Threads |-> 0]
    /\ sum = [t \in Threads |-> 0]
    /\ ret = [t \in Threads |-> 0]
    /\ seg = [t \in Threads |-> 0]
    /\ wr = [t \in Threads |-> 0]
    /\ out = [t \in Threads |-> <<>>]
    /\ mem0 = [t \in Threads |-> mem]
    /\ prev = <<>>

\* ------------------------------------------------------------ callers

\* Caller t calls dyloading_add(x, y, result) on the buffer as it stands.
Call(t, x, y) ==
    /\ pc[t] = "idle"
    /\ a' = [a EXCEPT ![t] = x]
    /\ b' = [b EXCEPT ![t] = y]
    /\ pc' = [pc EXCEPT ![t] = "printf"]
    /\ seg' = [seg EXCEPT ![t] = 0]
    /\ wr' = [wr EXCEPT ![t] = 0]
    /\ out' = [out EXCEPT ![t] = <<>>]
    /\ mem0' = [mem0 EXCEPT ![t] = mem]
    /\ UNCHANGED <<mem, cap, sum, ret, prev>>

\* What the caller keeps of a finished call.
Finished(t) ==
    [a |-> a[t], b |-> b[t], mem0 |-> mem0[t],
     ret |-> ret[t], mem |-> mem, out |-> out[t]]

\* Caller t, its call over, resets the buffer and calls again with the same
\* operands.
Recall(t, label, fill) ==
    /\ pc[t] = "done"
    /\ label \in LabelsFor(cap)
    /\ prev' = <<Finished(t)>>
    /\ mem' = InitMem(label, fill)
    /\ mem0' = [mem0 EXCEPT ![t] = mem']
    /\ pc' = [pc EXCEPT ![t] = "printf"]
    /\ seg' = [seg EXCEPT ![t] = 0]
    /\ wr' = [wr EXCEPT ![t] = 0]
    /\ out' = [out EXCEPT ![t] = <<>>]
    /\ UNCHANGED <<cap, a, b, sum, ret>>

\* Caller t, its call over, calls again with the same operands and the
\* buffer as the last call left it.
Reuse(t) ==
    /\ pc[t] = "done"
    /\ prev' = <<Finished(t)>>
    /\ mem0' = [mem0 EXCEPT ![t] = mem]
    /\ pc' = [pc EXCEPT ![t] = "printf"]
    /\ seg' = [seg EXCEPT ![t] = 0]
    /\ wr' = [wr EXCEPT ![t] = 0]
    /\ out' = [out EXCEPT ![t] = <<>>]
    /\ UNCHANGED <<mem, cap, a, b, sum, ret>>

\* ------------------------------------------------------------ dyloading_add

\* The two statements the other way round, in place of Printf: the message
\* is stored first and the greeting echoes the buffer after that.
PrintfAfterSprintf(t) ==
    /\ pc[t] = "printf"
    /\ mem' = [k \in 1 .. MemSize |->
                 LET m == Message(a[t], b[t], Add32(a[t], b[t])) \o <<NUL>>
                 IN  IF k <= Len(m) THEN m[k] ELSE mem[k]]
    /\ out' = [out EXCEPT ![t] = HelloPrefix \o CStr(mem') \o <<NL>>]
    /\ pc' = [pc EXCEPT ![t] = "add"]
    /\ UNCHANGED <<cap, a, b, sum, ret, seg, wr, mem0, prev>>

\* printf("[External dyloading] Hello %s\n", result): the greeting, the C
\* string result points at, and a newline go to standard output.  With no
\* NUL in the memory the model keeps, %s reads off its end: a fault.
Printf(t) ==
    /\ pc[t] = "printf"
    /\ IF \A i \in Offsets : Byte(mem, i) # NUL
       THEN /\ pc' = [pc EXCEPT ![t] = "fault"]
            /\ UNCHANGED out
       ELSE /\ out' = [out EXCEPT ![t] = HelloPrefix \o CStr(mem) \o <<NL>>]
            /\ pc' = [pc EXCEPT ![t] = "add"]
    /\ UNCHANGED <<mem, cap, a, b, sum, ret, seg, wr, mem0, prev>>

\* sum declared static and added to, in place of Add: the sum of this call
\* lands on top of the last one.
AddAccumulate(t) ==
    /\ pc[t] = "add"
    /\ sum' = [sum EXCEPT ![t] = Add32(@, Add32(a[t], b[t]))]
    /\ pc' = [pc EXCEPT ![t] = "sprintf"]
    /\ UNCHANGED <<mem, cap, a, b, ret, seg, wr, out, mem0, prev>>

\* sum declared static, in place of Add: one variable for every caller.
AddShared(t) ==
    /\ pc[t] = "add"
    /\ sum' = [u \in Threads |-> Add32(a[t], b[t])]
    /\ pc' = [pc EXCEPT ![t] = "sprintf"]
    /\ UNCHANGED <<mem, cap, a, b, ret, seg, wr, out, mem0, prev>>

\* int32_t sum = a + b;
Add(t) ==
    /\ pc[t] = "add"
    /\ sum' = [sum EXCEPT ![t] = Add32(a[t], b[t])]
    /\ pc' = [pc EXCEPT ![t] = "sprintf"]
    /\ UNCHANGED <<mem, cap, a, b, ret, seg, wr, out, mem0, prev>>

\* A store that also clears everything behind the text, as strncpy pads,
\* in place of Store.
StoreAndClear(m, at, s) ==
    [k \in 1 .. MemSize |->
        IF k <= at THEN m[k]
        ELSE IF k <= at + Len(s) THEN s[k - at] ELSE NUL]

\* Memory m with text s stored from offset at on.
Store(m, at, s) ==
    [k \in 1 .. MemSize |->
        IF at < k /\ k <= at + Len(s) THEN s[k - at] ELSE m[k]]

\* snprintf(result, cap, ...) in place of Sprintf: what does not fit in the
\* buffer is dropped and the NUL goes no further than its last byte.
SprintfBounded(t) ==
    /\ pc[t] = "sprintf"
    /\ LET ps == Pieces(a[t], b[t], sum[t])
           p == ps[seg[t] + 1]
           last == seg[t] + 1 = Len(ps)
           room == IF wr[t] < cap - 1 THEN cap - 1 - wr[t] ELSE 0
           fits == SubSeq(p, 1, IF Len(p) < room THEN Len(p) ELSE room)
       IN  /\ mem' = IF last
                     THEN Store(mem, IF wr[t] < cap - 1 THEN wr[t] ELSE cap - 1, p)
                     ELSE Store(mem, wr[t], fits)
           /\ wr' = [wr EXCEPT ![t] = @ + Len(p)]
           /\ seg' = [seg EXCEPT ![t] = @ + 1]
           /\ pc' = [pc EXCEPT ![t] = IF last THEN "return" ELSE "sprintf"]
    /\ UNCHANGED <<cap, a, b, sum, ret, out, mem0, prev>>

\* sprintf(result, "...", a, b, sum): the next piece is stored at
\* result + wr; the NUL is the last.  Nothing stops a store at the buffer's
\* capacity, which sprintf is not told.  A store that runs off the memory
\* the model keeps is a fault.
Sprintf(t) ==
    /\ pc[t] = "sprintf"
    /\ LET ps == Pieces(a[t], b[t], sum[t])
           p == ps[seg[t] + 1]
       IN  IF wr[t] + Len(p) > MemSize
           THEN /\ pc' = [pc EXCEPT ![t] = "fault"]
                /\ UNCHANGED <<mem, seg, wr>>
           ELSE /\ mem' = Store(mem, wr[t], p)
                /\ wr' = [wr EXCEPT ![t] = @ + Len(p)]
                /\ seg' = [seg EXCEPT ![t] = @ + 1]
                /\ pc' = [pc EXCEPT ![t] =
                             IF seg[t] + 1 = Len(ps) THEN "return" ELSE "sprintf"]
    /\ UNCHANGED <<cap, a, b, sum, ret, out, mem0, prev>>

\* return 0 in place of Return: a status where the sum belongs.
ReturnStatus(t) ==
    /\ pc[t] = "return"
    /\ ret' = [ret EXCEPT ![t] = 0]
    /\ pc' = [pc EXCEPT ![t] = "done"]
    /\ UNCHANGED <<mem, cap, a, b, sum, seg, wr, out, mem0, prev>>

\* return sum;
Return(t) ==
    /\ pc[t] = "return"
    /\ ret' = [ret EXCEPT ![t] = sum[t]]
    /\ pc' = [pc EXCEPT ![t] = "done"]
    /\ UNCHANGED <<mem, cap, a, b, sum, seg, wr, out, mem0, prev>>

\* ------------------------------------------------------------ specifications

\* One caller, calling again and again.
Next ==
    \/ \E x \in ArgValues, y \in ArgValues : Call(1, x, y)
    \/ \E label \in Labels, fill \in Fills : Recall(1, label, fill)
    \/ Reuse(1)
    \/ Printf(1)
    \/ Add(1)
    \/ Sprintf(1)
    \/ Return(1)

Spec == Init /\ [][Next]_vars

\* Two callers, one call each, on the same buffer and with no
\* synchronisation between them.
NextRace ==
    \E t \in Threads :
        \/ \E xy \in RaceArgs : Call(t, xy[1], xy[2])
        \/ Printf(t)
        \/ Add(t)
        \/ Sprintf(t)
        \/ Return(t)

SpecRace == Init /\ [][NextRace]_vars

\* ------------------------------------------------------------ properties

\* The sequential caller has its call behind it.
Done == pc[1] = "done"

\* The sum of caller t's operands does not leave int32_t.
InRange(t) == NoOverflow(a[t], b[t])

\* The message of caller t's call, from its operands and its sum.
Msg(t) == Message(a[t], b[t], sum[t])

\* Text s occurs in text w.
Contains(w, s) ==
    \E i \in 0 .. (Len(w) - Len(s)) : SubSeq(w, i + 1, i + Len(s)) = s

\* The low and the high 16 bits of x, the high half signed.
Lo16(x) == x % 65536
Hi16(x) == x \div 65536

\* r is x + y modulo 2^32 read as a signed 32-bit number, said half by half:
\* the low halves add with a carry into the high halves, and the carry out
\* of the high halves is dropped.
IsWrappedSum(x, y, r) ==
    /\ INT32_MIN <= r /\ r <= INT32_MAX
    /\ Lo16(r) = (Lo16(x) + Lo16(y)) % 65536
    /\ (Hi16(r) - Hi16(x) - Hi16(y) - ((Lo16(x) + Lo16(y)) \div 65536)) % 65536 = 0

\* Text s is the decimal text of n: digits only, behind a minus sign exactly
\* when n is negative, no leading zero, and of value n (the digits are
\* checked against n from the last one back).
RECURSIVE DigitsOfNeg(_, _)
DigitsOfNeg(s, n) ==
    /\ Len(s) >= 1
    /\ \E d \in 0 .. 9 :
          /\ s[Len(s)] = DigitChars[d + 1]
          /\ (n + d) % 10 = 0
          /\ IF Len(s) = 1 THEN n + d = 0
             ELSE DigitsOfNeg(SubSeq(s, 1, Len(s) - 1), (n + d) \div 10)
IsDecimalOf(s, n) ==
    LET digits == IF n < 0 THEN Tail(s) ELSE s
    IN  /\ Len(s) >= 1
        /\ (n < 0) = (s[1] = "-")
        /\ Len(digits) >= 1
        /\ Len(digits) > 1 => digits[1] # "0"
        /\ DigitsOfNeg(digits, IF n < 0 THEN n ELSE -n)

\* C1: a call whose operands' sum is an int32_t returns exactly a + b,
\* whatever the buffer held.
C1_ReturnsSum ==
    (Done /\ InRange(1)) => ret[1] = a[1] + b[1]

C1_Witness ==
    /\ Done /\ InRange(1)
    /\ a[1] = -7 /\ b[1] = 2 /\ ret[1] = -5
    /\ CStr(mem0[1]) = <<"R", "u", "s", "t">>

\* C2: after such a call the buffer holds exactly
\* "[External dyloading] The result (<a> + <b>) is <sum>!", the three fields
\* being the decimal texts of a, b and a + b (no leading zero, a minus sign
\* for a negative value), and nothing of what it held before.
C2_BufferMessage ==
    (Done /\ InRange(1)) =>
        LET da == Dec(a[1])
            db == Dec(b[1])
            ds == Dec(a[1] + b[1])
        IN  /\ IsDecimalOf(da, a[1])
            /\ IsDecimalOf(db, b[1])
            /\ IsDecimalOf(ds, a[1] + b[1])
            /\ CStr(mem) = FmtHead \o da \o FmtPlus \o db \o FmtIs \o ds \o FmtBang
            /\ (a[1] = -7 /\ b[1] = 2) =>
                  CStr(mem) = FmtHead \o <<"-", "7", " ", "+", " ", "2", ")",
                                           " ", "i", "s", " ", "-", "5", "!">>
            /\ (a[1] = 2 /\ b[1] = 3) =>
                  CStr(mem) = FmtHead \o <<"2", " ", "+", " ", "3", ")",
                                           " ", "i", "s", " ", "5", "!">>
            /\ (a[1] = 0 /\ b[1] = 0) =>
                  CStr(mem) = FmtHead \o <<"0", " ", "+", " ", "0", ")",
                                           " ", "i", "s", " ", "0", "!">>

C2_Witness ==
    /\ Done /\ InRange(1)
    /\ a[1] = -7 /\ b[1] = 2
    /\ CStr(mem0[1]) = <<"R", "u", "s", "t">>
    /\ CStr(mem) = FmtHead \o <<"-", "7", " ", "+", " ", "2", ")",
                                " ", "i", "s", " ", "-", "5", "!">>

\* The call has put its line on standard output.
Emitted == pc[1] \in {"add", "sprintf", "return", "done"}

\* The line a call owes standard output: the greeting, the buffer's contents
\* at the start of the call, a newline.
Greeting(t) == HelloPrefix \o CStr(mem0[t]) \o <<NL>>

\* C3 as stated: every call emits "[External dyloading] Hello " followed by
\* what the buffer held before the call, before the buffer is overwritten,
\* and the emitted text never contains the message the same call produces.
C3_NeverContainsMessage ==
    /\ out[1] = <<>> => mem = mem0[1]
    /\ Emitted => out[1] = Greeting(1)
    /\ pc[1] \in {"sprintf", "return", "done"} => ~Contains(out[1], Msg(1))

\* C3, amended: every call emits "[External dyloading] Hello " followed by
\* what the buffer held before the call (and a newline), and does so before
\* it overwrites the buffer; the emitted text contains the message the same
\* call produces only when the buffer held that message before the call.
C3_EchoBeforeOverwrite ==
    /\ out[1] = <<>> => mem = mem0[1]
    /\ Emitted => out[1] = Greeting(1)
    /\ pc[1] \in {"sprintf", "return", "done"} =>
          (Contains(out[1], Msg(1)) => Contains(CStr(mem0[1]), Msg(1)))

C3_Witness ==
    /\ Done
    /\ out[1] = HelloPrefix \o <<"R", "u", "s", "t", NL>>
    /\ CStr(mem) = Msg(1)
    /\ mem # mem0[1]

\* C4: a second call with the same operands, the buffer reset to the same
\* contents, gives the same return value, the same buffer and the same
\* standard output as the first.
C4_SameInputsSameOutputs ==
    (/\ Done
     /\ prev # <<>>
     /\ prev[1].a = a[1] /\ prev[1].b = b[1]
     /\ prev[1].mem0 = mem0[1])
    => /\ ret[1] = prev[1].ret
       /\ mem = prev[1].mem
       /\ out[1] = prev[1].out

C4_Witness ==
    /\ Done
    /\ prev # <<>>
    /\ prev[1].a = a[1] /\ prev[1].b = b[1]
    /\ prev[1].mem0 = mem0[1]
    /\ a[1] = 2 /\ b[1] = 3
    /\ CStr(mem0[1]) = <<"R", "u", "s", "t">>
    /\ ret[1] = 5 /\ prev[1].ret = 5

\* C5: when a + b leaves int32_t nothing is signalled; the sum is a + b
\* modulo 2^32 read as a signed number, and that one value is both returned
\* and written as <sum> in the buffer.
C5_WrappedSum ==
    ~InRange(1) =>
        /\ pc[1] # "fault"
        /\ Done =>
              /\ IsWrappedSum(a[1], b[1], ret[1])
              /\ CStr(mem) = FmtHead \o Dec(a[1]) \o FmtPlus \o Dec(b[1])
                                \o FmtIs \o Dec(ret[1]) \o FmtBang
              /\ (a[1] = INT32_MAX /\ b[1] = INT32_MAX) => ret[1] = -2
              /\ (a[1] = INT32_MIN /\ b[1] = INT32_MIN) => ret[1] = 0
              /\ (a[1] = INT32_MIN /\ b[1] = -7) => ret[1] = INT32_MAX - 6

C5_Witness ==
    /\ Done /\ ~InRange(1)
    /\ a[1] = INT32_MAX /\ b[1] = 2 /\ ret[1] = INT32_MIN + 1
    /\ Contains(CStr(mem), <<" ", "i", "s", " ", "-", "2", "1", "4", "7",
                             "4", "8", "3", "6", "4", "7", "!">>)

\* C6: no call ends in an error: each returns the sum, for every capacity.
\* A message that needs more than the buffer's capacity is neither refused
\* nor cut short: it is stored whole, its end past the end of the buffer.
C6_NoErrorNoTruncation ==
    /\ pc[1] # "fault"
    /\ Done =>
          /\ ret[1] = sum[1]
          /\ IsWrappedSum(a[1], b[1], ret[1])
          /\ (Len(Msg(1)) + 1 > cap) =>
                /\ CStr(mem) = Msg(1)
                /\ wr[1] > cap
                /\ SubSeq(mem, cap + 1, Len(Msg(1)) + 1)
                      = From(Msg(1) \o <<NUL>>, cap)

C6_Witness ==
    /\ Done
    /\ Len(Msg(1)) + 1 > cap
    /\ \E i \in Offsets : i >= cap /\ Byte(mem, i) # Byte(mem0[1], i)

\* C7: two callers on one buffer, unsynchronised: each call still returns
\* its own a + b (and the witness is a run in which one caller's greeting
\* echoes the other's message and the buffer ends up holding a message that
\* is not the other caller's own).
C7_RaceKeepsReturnValue ==
    \A t \in Threads : pc[t] = "done" => ret[t] = a[t] + b[t]

C7_Witness ==
    \E t \in Threads, u \in Threads :
        /\ t # u
        /\ pc[t] = "done" /\ pc[u] = "done"
        /\ ret[t] = a[t] + b[t] /\ ret[u] = a[u] + b[u]
        /\ Msg(t) # Msg(u)
        /\ out[t] = HelloPrefix \o Msg(u) \o <<NL>>
        /\ out[t] # Greeting(t)
        /\ CStr(mem) # Msg(u)

\* C8 as stated: with L the length of the message, only offsets 0 .. L-1 are
\* modified and every byte at offset L or beyond is left as it was.
C8_NothingFromL ==
    Done => From(mem, Len(Msg(1))) = From(mem0[1], Len(Msg(1)))

\* C8, amended: with L the length of the message, the call stores the L
\* characters of the message at offsets 0 .. L-1 and the terminating NUL at
\* offset L; every byte at offset L+1 or beyond is left as it was.
C8_NothingBehindNul ==
    Done =>
        /\ From(mem, Len(Msg(1)) + 1) = From(mem0[1], Len(Msg(1)) + 1)
        /\ SubSeq(mem, 1, Len(Msg(1)) + 1) = Msg(1) \o <<NUL>>
        /\ wr[1] = Len(Msg(1)) + 1

C8_Witness ==
    /\ Done
    /\ Byte(mem0[1], Len(Msg(1))) = "#"
    /\ Byte(mem, Len(Msg(1))) = NUL
    /\ Byte(mem, Len(Msg(1)) + 1) = "#"

\* No byte from the buffer's capacity on has been stored to.
InsideBuffer ==
    /\ wr[1] <= cap
    /\ From(mem, cap) = From(mem0[1], cap)

\* The lengths C9 names: 42 fixed characters and three fields of at most 11.
FieldsWithinBound ==
    /\ Len(FmtHead) + Len(FmtPlus) + Len(FmtIs) + Len(FmtBang) = 42
    /\ Len(Dec(a[1])) <= 11 /\ Len(Dec(b[1])) <= 11 /\ Len(Dec(sum[1])) <= 11

\* C9 as stated: the message is at most 75 characters long, the maximum
\* being reached at a = -2147483648, b = 0, and with a buffer of at least 76
\* bytes no call writes outside the buffer.
C9_MaxAtIntMin ==
    pc[1] \in {"sprintf", "return", "done"} =>
        /\ FieldsWithinBound
        /\ Len(Msg(1)) <= 75
        /\ cap >= 76 => InsideBuffer
        /\ (a[1] = INT32_MIN /\ b[1] = 0) => Len(Msg(1)) = 75

\* C9, amended: the message is at most 75 characters long (42 fixed
\* characters and three fields of at most 11), the maximum being reached
\* e.g. at a = b = -1000000000, and with a buffer of at least 76 bytes,
\* counting the terminating NUL, no call writes outside the buffer.
C9_MessageFitsIn76 ==
    pc[1] \in {"sprintf", "return", "done"} =>
        /\ FieldsWithinBound
        /\ Len(Msg(1)) <= 75
        /\ cap >= 76 => InsideBuffer
        /\ (a[1] = -1000000000 /\ b[1] = -1000000000) => Len(Msg(1)) = 75

C9_Witness ==
    /\ Done
    /\ cap = 76
    /\ Len(Msg(1)) = 75
    /\ wr[1] = 76
    /\ Byte(mem, 75) = NUL

\* C10: the return value and the string left in the buffer depend on a and
\* b alone: a call with the same operands and other buffer contents returns
\* the same value and leaves the same string; the contents show only on
\* standard output.
C10_BufferContentsDoNotMatter ==
    (/\ Done
     /\ prev # <<>>
     /\ prev[1].a = a[1] /\ prev[1].b = b[1])
    => /\ ret[1] = prev[1].ret
       /\ CStr(mem) = CStr(prev[1].mem)
       /\ (out[1] # prev[1].out) = (CStr(mem0[1]) # CStr(prev[1].mem0))

C10_Witness ==
    /\ Done
    /\ prev # <<>>
    /\ prev[1].a = a[1] /\ prev[1].b = b[1]
    /\ CStr(prev[1].mem0) = <<>>
    /\ CStr(mem0[1]) = <<"R", "u", "s", "t">>
    /\ Byte(prev[1].mem0, Len(Msg(1))) # Byte(mem0[1], Len(Msg(1)))
    /\ ret[1] = prev[1].ret
    /\ CStr(mem) = CStr(prev[1].mem)
    /\ out[1] # prev[1].out

====
